---- MODULE Spec2Model ----
(***************************************************************************)
(* Model of microscope_sim.py: the vertex-based cell (Cell), its area      *)
(* conservation, the pairwise collision, and the per-frame orchestration   *)
(* of MicroscopeSim.get_frame / reset.                                     *)
(*                                                                         *)
(* Numbers.  The program computes in floating point.  The model computes   *)
(* in fixed point: a real x is the integer round(x * ONE).  Lengths are in *)
(* pixels, times in seconds, velocities in pixels per second.  Products    *)
(* and quotients round to the nearest representable value, as floating     *)
(* point does.  Angles are kept as multiples of 2*pi/vertices, the grid    *)
(* the vertex angles themselves live on.                                   *)
(*                                                                         *)
(* Two simulators, sim and twin, are built from the same seed and          *)
(* configuration.  Spec drives sim alone, by get_frame, reset and by the    *)
(* methods of its cells; TwinSpec drives both by the same frames.  np_rng   *)
(* is numpy's module-level generator, which only the image filter draws     *)
(* from.  last records the latest call and the simulator before it.         *)
(***************************************************************************)
EXTENDS Integers, Sequences, FiniteSets, TLC

VARIABLES sim, twin, np_rng, last, nops

vars == <<sim, twin, np_rng, last, nops>>

-----------------------------------------------------------------------------
(* Bounds of the model *)

\* number of calls made on the simulator after its construction, under Spec
MaxCalls == 2
\* number of frames asked of the two simulators, under TwinSpec
MaxFrames == 3

-----------------------------------------------------------------------------
(* Fixed-point arithmetic *)

ONE == 10 * 10 * 10

Abs(x) == IF x < 0 THEN -x ELSE x

Max2(a, b) == IF a >= b THEN a ELSE b

Min2(a, b) == IF a <= b THEN a ELSE b

\* n / d rounded to the nearest integer (d > 0)
RoundDiv(n, d) == (2 * n + d) \div (2 * d)

\* a * b and a / b of two fixed-point numbers
Mul(a, b) == RoundDiv(a * b, ONE)

Div(a, b) == RoundDiv(a * ONE, b)

RECURSIVE ISqrtIter(_, _, _)
ISqrtIter(n, lo, hi) ==
  IF lo >= hi THEN lo
  ELSE IF ((lo + hi + 1) \div 2) * ((lo + hi + 1) \div 2) <= n
       THEN ISqrtIter(n, (lo + hi + 1) \div 2, hi)
       ELSE ISqrtIter(n, lo, ((lo + hi + 1) \div 2) - 1)

\* floor of the square root of a natural number below 2^31
ISqrt(n) == ISqrtIter(n, 0, Min2(n, 46340))

\* s or s + 1, whichever is nearer to the square root of n, s being its floor
Nearest(n, s) == IF n - s * s > s THEN s + 1 ELSE s

\* square root rounded to the nearest integer
RSqrt(n) == Nearest(n, ISqrt(n))

\* math.sqrt of a fixed-point number
Sqrt(x) == RSqrt(x * ONE)

\* np.linalg.norm of a fixed-point 2-vector
Norm(v) == RSqrt(v[1] * v[1] + v[2] * v[2])

\* Python's round(): n / d rounded to the nearest integer, ties to even (d > 0)
Round(n, d) ==
  IF (2 * n + d) % (2 * d) = 0 /\ ((2 * n + d) \div (2 * d)) % 2 = 1
  THEN ((2 * n + d) \div (2 * d)) - 1
  ELSE (2 * n + d) \div (2 * d)

RECURSIVE SumSeq(_, _)
SumSeq(s, i) == IF i = 0 THEN 0 ELSE s[i] + SumSeq(s, i - 1)

RECURSIVE MaxSeq(_, _)
MaxSeq(s, i) == IF i = 1 THEN s[1] ELSE Max2(s[i], MaxSeq(s, i - 1))

\* an array, held as the tuple of its elements
Vec(f) == f \o <<>>

-----------------------------------------------------------------------------
(* Configuration: the arguments MicroscopeSim is constructed with.  The     *)
(* field and the population are small; the rates are the defaults, but for  *)
(* the protrusion gain and the larger of the two ruffle amplitudes.         *)

width == 10
height == 10
nb_cells == 3
vertices == 8
base_radius == 2
friction == 3000
brownian_d == 80000
curvature_relax == 60
radial_relax == 20
protrusion_gain == 500
impulse == 10000
\* ruffle_std of a simulator is one of these
RuffleStds == {0, 600}

W == width * ONE
H == height * ONE
Cells == 1 .. nb_cells
Verts == 1 .. vertices

PI == 3142

\* np.cos(self.angles) and np.sin(self.angles) for angles 2*pi*i/8, i = 0..7
CosTab == <<1000, 707, 0, -707, -1000, -707, 0, 707>>
SinTab == <<0, 707, 1000, 707, 0, -707, -1000, -707>>

\* cosine and sine of the angle g * 2*pi/vertices
CosGrid(g) == CosTab[(g % vertices) + 1]
SinGrid(g) == SinTab[(g % vertices) + 1]

\* the grid index of an angle in [0, 2*pi), given in radians
GridOf(angle) == (angle * vertices) \div (2 * PI)

-----------------------------------------------------------------------------
(* random.Random: a generator is its state and the draws made from it, each *)
(* the name of the method called and the value it returned                  *)

RngModulus == 256 * 256

\* random.Random(seed)
SeedRng(seed) == [state |-> (seed * 7919 + 12345) % RngModulus, log |-> <<>>]

\* the next state of the generator
RngStep(state) == (state * 25173 + 13849) % RngModulus

\* the fraction in [0, 1) a state of the generator stands for
Frac(state) == (state * ONE) \div RngModulus

\* a draw: the value returned and the generator after it
Draw(rng, kind, val) ==
  [val |-> val, rng |-> [state |-> RngStep(rng.state), log |-> Append(rng.log, <<kind, val>>)]]

\* rng.random(): a value in [0, 1)
random(rng) == Draw(rng, "random", Frac(RngStep(rng.state)))

\* rng.uniform(a, b): a + (b - a) * random()
uniform(rng, a, b) == Draw(rng, "uniform", a + ((b - a) * Frac(RngStep(rng.state))) \div ONE)

\* standard normal deviates the generator picks from
ZTab == <<-1500, -700, 0, 700, 1500>>

\* rng.normalvariate(mu, sigma)
normalvariate(rng, mu, sigma) ==
  Draw(rng, "normalvariate",
       mu + Mul(sigma, ZTab[((Frac(RngStep(rng.state)) * Len(ZTab)) \div ONE) + 1]))

\* rng.randint(a, b): an integer in a .. b, both ends included
randint(rng, a, b) ==
  Draw(rng, "randint", a + (Frac(RngStep(rng.state)) * (b - a + 1)) \div ONE)

-----------------------------------------------------------------------------
(* Helpers *)

\* wrap without the modulo
wrapNone(pos, w, h) == pos

wrap(pos, w, h) == <<pos[1] % w, pos[2] % h>>

\* polygon_area: 0.5 * (x @ roll(y, -1) - y @ roll(x, -1)), summed edge by edge
polygon_area(xs, ys) ==
  RoundDiv(SumSeq(Vec([i \in Verts |-> xs[i] * ys[(i % vertices) + 1]
                                      - ys[i] * xs[(i % vertices) + 1]]), vertices),
           2 * ONE)

\* Cell._rel_pts: the vertices relative to the center
RelX(c) == Vec([i \in Verts |-> Mul(CosGrid(i - 1), c.r[i])])
RelY(c) == Vec([i \in Verts |-> Mul(SinGrid(i - 1), c.r[i])])

\* the vertices of the cell in field coordinates
VertX(c) == Vec([i \in Verts |-> c.center[1] + Mul(CosGrid(i - 1), c.r[i])])
VertY(c) == Vec([i \in Verts |-> c.center[2] + Mul(SinGrid(i - 1), c.r[i])])

\* the shoelace area of the cell's polygon
CellArea(c) == Abs(polygon_area(VertX(c), VertY(c)))

\* the rescale without the square root: self.r *= self.area0 / area
RescaleLinear(c, area) ==
  IF area # 0
  THEN [c EXCEPT !.r = Vec([i \in Verts |-> Mul(c.r[i], Div(c.area0, area))])]
  ELSE c

\* self.r *= math.sqrt(self.area0 / area)
Rescale(c, area) ==
  IF area # 0
  THEN [c EXCEPT !.r = Vec([i \in Verts |-> Mul(c.r[i], Sqrt(Div(c.area0, area)))])]
  ELSE c

\* Cell._conserve_area
ConserveArea(c) == Rescale(c, CellArea(c))

\* np.clip(self.r, 0.4 * base_r, 2.2 * base_r)
RLo(c) == Mul(400, c.base_r)
RHi(c) == Mul(2200, c.base_r)
Clip(c) == [c EXCEPT !.r = Vec([i \in Verts |-> Min2(Max2(c.r[i], RLo(c)), RHi(c))])]

-----------------------------------------------------------------------------
(* Cell *)

\* the cell __init__ builds from its three draws.  updates and hits are history:
\* the completed update calls, and the stimulate calls that protruded a vertex
MakeCell(base, cx, cy) ==
  [base_r |-> base,
   r |-> Vec([i \in Verts |-> base]),
   area0 |-> Mul(PI, Mul(base, base)),
   vel |-> <<0, 0>>,
   center |-> <<cx, cy>>,
   updates |-> 0,
   hits |-> 0]

CellAtY(base, dx, dy) == [cell |-> MakeCell(base, dx.val, dy.val), rng |-> dy.rng]

CellAtX(base, dx) == CellAtY(base, dx, uniform(dx.rng, 0, H))

CellOfBase(d) ==
  CellAtX(Mul(base_radius * ONE, 850 + Mul(300, d.val)), uniform(d.rng, 0, W))

\* Cell.__init__: three draws, base_r, center x, center y
NewCell(rng) == CellOfBase(random(rng))

\* mask[iy, ix] of a mask given by its dimensions and its pattern of true pixels
MaskAt(m, iy, ix) ==
  CASE m.pat = "none" -> FALSE
    [] m.pat = "all" -> TRUE
    [] m.pat = "right" -> 2 * ix >= m.w
    [] OTHER -> FALSE

\* mask.any()
MaskAny(m) == \E iy \in 0 .. m.h - 1 : \E ix \in 0 .. m.w - 1 : MaskAt(m, iy, ix)

\* the vertices inside the screen
Inside(vx, vy) == {i \in Verts : vx[i] >= 0 /\ vx[i] < W /\ vy[i] >= 0 /\ vy[i] < H}

\* astype(int) of a non-negative coordinate
PixelOf(x) == x \div ONE

\* mask[iy, ix] raises IndexError when an index is outside the mask
OutOfMask(m, vx, vy, inside) ==
  \E i \in inside : PixelOf(vy[i]) >= m.h \/ PixelOf(vx[i]) >= m.w

\* np.nonzero(inside)[0][hit]
HitSet(m, vx, vy, inside) == {i \in inside : MaskAt(m, PixelOf(vy[i]), PixelOf(vx[i]))}

RECURSIVE SumOver(_, _)
SumOver(f, S) ==
  IF S = {} THEN 0 ELSE f[CHOOSE j \in S : TRUE] + SumOver(f, S \ {CHOOSE j \in S : TRUE})

\* vx[idx].mean()
Mean(f, idx) == RoundDiv(SumOver(f, idx), Cardinality(idx))

\* if n: self.vel += (vec / n) * self.impulse
PushBy(c, vec, n) ==
  IF n # 0
  THEN [c EXCEPT !.vel = <<c.vel[1] + RoundDiv(vec[1] * impulse, n),
                           c.vel[2] + RoundDiv(vec[2] * impulse, n)>>]
  ELSE c

Push(c, vec) == PushBy(c, vec, Norm(vec))

\* the kick toward the mean of the hit vertices
Kick(c, vx, vy, idx) == Push(c, <<Mean(vx, idx) - c.center[1], Mean(vy, idx) - c.center[2]>>)

\* self.r[idx] += self.protrusion_gain * self.base_r
Protrude(c, idx) ==
  [c EXCEPT !.r = Vec([i \in Verts |->
      IF i \in idx THEN c.r[i] + Mul(protrusion_gain, c.base_r) ELSE c.r[i]])]

\* stimulate without the return on an empty hit: only the kick is skipped
StimHitNoReturn(c, vx, vy, idx) ==
  IF idx = {} THEN [cell |-> ConserveArea(Clip(Protrude(c, idx))), err |-> FALSE]
  ELSE [cell |-> Kick(ConserveArea(Clip(Protrude([c EXCEPT !.hits = @ + 1], idx))), vx, vy, idx),
        err |-> FALSE]

\* stimulate from "if not hit.any(): return" on
StimHit(c, vx, vy, idx) ==
  IF idx = {} THEN [cell |-> c, err |-> FALSE]
  ELSE [cell |-> Kick(ConserveArea(Clip(Protrude([c EXCEPT !.hits = @ + 1], idx))), vx, vy, idx),
        err |-> FALSE]

\* stimulate from "if not inside.any(): return" on
StimInside(c, m, vx, vy, inside) ==
  IF inside = {} THEN [cell |-> c, err |-> FALSE]
  ELSE IF OutOfMask(m, vx, vy, inside) THEN [cell |-> c, err |-> TRUE]
  ELSE StimHit(c, vx, vy, HitSet(m, vx, vy, inside))

StimVerts(c, m, vx, vy) == StimInside(c, m, vx, vy, Inside(vx, vy))

\* Cell.stimulate: the cell after the call, and whether the call raised IndexError
stimulate(c, m) == StimVerts(c, m, VertX(c), VertY(c))

\* self.center += self.vel * dt; wrap; self.vel *= max(0.0, 1.0 - self.friction * dt)
Advance(c, dt) ==
  [c EXCEPT !.center = wrap(<<c.center[1] + Mul(c.vel[1], dt),
                              c.center[2] + Mul(c.vel[2], dt)>>, W, H),
            !.vel = <<Mul(c.vel[1], Max2(0, ONE - Mul(friction, dt))),
                      Mul(c.vel[2], Max2(0, ONE - Mul(friction, dt)))>>]

\* self.vel += amp * np.array([math.cos(ang), math.sin(ang)])
Heading(c, dt, amp, dAng) ==
  [cell |-> Advance([c EXCEPT !.vel = <<c.vel[1] + Mul(amp, CosGrid(GridOf(dAng.val))),
                                        c.vel[2] + Mul(amp, SinGrid(GridOf(dAng.val)))>>], dt),
   rng |-> dAng.rng]

Drift(c, dt, dAmp) == Heading(c, dt, dAmp.val, uniform(dAmp.rng, 0, 2 * PI))

\* the first half of update: the Brownian kick, the move and the friction
Brownian(c, dt, rng) == Drift(c, dt, normalvariate(rng, 0, Sqrt(Mul(2 * brownian_d, dt))))

\* self.r += sample * np.cos(k * self.angles + phase)
RuffleApply(c, sample, k, dPh) ==
  [cell |-> [c EXCEPT !.r = Vec([i \in Verts |->
                 c.r[i] + Mul(sample, CosGrid(k * (i - 1) + GridOf(dPh.val)))])],
   rng |-> dPh.rng]

RufflePhase(c, sample, dK) == RuffleApply(c, sample, dK.val, uniform(dK.rng, 0, 2 * PI))

\* the harmonic drawn one further: randint(1, 4)
RuffleHarmonicWide(rng) == randint(rng, 1, 4)

\* the integer harmonic of the ruffle
RuffleHarmonic(rng) == randint(rng, 1, 3)

RuffleK(c, dRuf) == RufflePhase(c, dRuf.val, RuffleHarmonic(dRuf.rng))

\* the ruffle: a normal sample, an integer harmonic and a phase
Ruffle(c, ruffle_std, rng) == RuffleK(c, normalvariate(rng, 0, Mul(ruffle_std, c.base_r)))

\* lap = np.roll(self.r, -1) + np.roll(self.r, 1) - 2 * self.r, at vertex i
Lap(r, i) == r[(i % vertices) + 1] + r[((i + vertices - 2) % vertices) + 1] - 2 * r[i]

\* self.r += self.curvature_relax * lap + self.radial_relax * (self.base_r - self.r)
Relax(c) ==
  [c EXCEPT !.r = Vec([i \in Verts |-> c.r[i] + Mul(curvature_relax, Lap(c.r, i))
                                              + Mul(radial_relax, c.base_r - c.r[i])])]

\* the end of update without the call of _conserve_area
UpdateShapeNoConserve(u) ==
  [cell |-> [Clip(Relax(u.cell)) EXCEPT !.updates = @ + 1], rng |-> u.rng]

\* the end of update: relax, clip, _conserve_area
UpdateShape(u) ==
  [cell |-> [ConserveArea(Clip(Relax(u.cell))) EXCEPT !.updates = @ + 1], rng |-> u.rng]

UpdateRuffle(b, ruffle_std) == UpdateShape(Ruffle(b.cell, ruffle_std, b.rng))

\* Cell.update: the cell and the generator after the call
update(c, dt, rng, ruffle_std) == UpdateRuffle(Brownian(c, dt, rng), ruffle_std)

\* d - L * round(d / L)
MinImage(d, L) == d - L * Round(d, L)

\* the shift applied with the signs exchanged: the centers pulled together
SeparateInward(a, b, shift) ==
  <<[a EXCEPT !.center = wrap(<<a.center[1] + shift[1], a.center[2] + shift[2]>>, W, H),
              !.vel = <<0, 0>>],
    [b EXCEPT !.center = wrap(<<b.center[1] - shift[1], b.center[2] - shift[2]>>, W, H),
              !.vel = <<0, 0>>]>>

\* the centers pushed apart by shift and wrapped, the velocities zeroed
Separate(a, b, shift) ==
  <<[a EXCEPT !.center = wrap(<<a.center[1] - shift[1], a.center[2] - shift[2]>>, W, H),
              !.vel = <<0, 0>>],
    [b EXCEPT !.center = wrap(<<b.center[1] + shift[1], b.center[2] + shift[2]>>, W, H),
              !.vel = <<0, 0>>]>>

\* shift = 0.5 * (overlap + 0.5) * dvec / dist
CollideOverlap(a, b, dvec, dist, overlap) ==
  IF overlap <= 0 THEN <<a, b>>
  ELSE Separate(a, b, <<RoundDiv((overlap + ONE \div 2) * dvec[1], 2 * dist),
                        RoundDiv((overlap + ONE \div 2) * dvec[2], 2 * dist)>>)

CollideDist(a, b, dvec, dist) ==
  IF dist = 0 THEN <<a, b>>
  ELSE CollideOverlap(a, b, dvec, dist, MaxSeq(a.r, vertices) + MaxSeq(b.r, vertices) - dist)

CollideVec(a, b, dvec) == CollideDist(a, b, dvec, Norm(dvec))

\* Cell.collide: the two cells after a.collide(b)
collide(a, b) ==
  CollideVec(a, b, <<MinImage(b.center[1] - a.center[1], W),
                     MinImage(b.center[2] - a.center[2], H)>>)

-----------------------------------------------------------------------------
(* MicroscopeSim *)

RECURSIVE NewCells(_, _)
\* a cell put before the cells built after it
ConsCell(cell, rest) == [cells |-> <<cell>> \o rest.cells, rng |-> rest.rng]

MoreCells(c, n) == ConsCell(c.cell, NewCells(c.rng, n - 1))

\* the list comprehension of __init__ and reset: n cells drawn from the shared generator
NewCells(rng, n) == IF n = 0 THEN [cells |-> <<>>, rng |-> rng] ELSE MoreCells(NewCell(rng), n)

SimOf(p, ruffle_std) == [cells |-> p.cells, rng |-> p.rng, ruffle_std |-> ruffle_std]

\* MicroscopeSim.__init__
NewSim(seed, ruffle_std) == SimOf(NewCells(SeedRng(seed), nb_cells), ruffle_std)

ResetTo(s, p) == [s EXCEPT !.cells = p.cells, !.rng = p.rng]

\* MicroscopeSim.reset: a fresh population from the generator as it stands
reset(s) == ResetTo(s, NewCells(s.rng, nb_cells))

\* one entry of the record of the calls get_frame makes: the method, the cells it
\* is called on, and the draws made from the shared generator during the call
Call(fn, a, b, draws) == [fn |-> fn, a |-> a, b |-> b, draws |-> draws]

\* the draws made between two states of the generator
DrawsBetween(before, after) == SubSeq(after.log, Len(before.log) + 1, Len(after.log))

\* a call put before the calls made after it
ConsCall(call, rest) == [rest EXCEPT !.calls = <<call>> \o rest.calls]

RECURSIVE StimPass(_, _, _)
StimNext(cells, m, i, res) ==
  IF res.err
  THEN [cells |-> cells, err |-> TRUE, calls |-> <<Call("stimulate", i, 0, <<>>)>>]
  ELSE ConsCall(Call("stimulate", i, 0, <<>>),
                StimPass([cells EXCEPT ![i] = res.cell], m, i + 1))

\* for c in self._cells: c.stimulate(mask); an IndexError ends the pass
StimPass(cells, m, i) ==
  IF i > nb_cells THEN [cells |-> cells, err |-> FALSE, calls |-> <<>>]
  ELSE StimNext(cells, m, i, stimulate(cells[i], m))

RECURSIVE UpdatePass(_, _, _, _, _)
UpdateNext(cells, rng, dt, ruffle_std, i, res) ==
  ConsCall(Call("update", i, 0, DrawsBetween(rng, res.rng)),
           UpdatePass([cells EXCEPT ![i] = res.cell], res.rng, dt, ruffle_std, i + 1))

\* for c in self._cells: c.update(dt)
UpdatePass(cells, rng, dt, ruffle_std, i) ==
  IF i > nb_cells THEN [cells |-> cells, rng |-> rng, calls |-> <<>>]
  ELSE UpdateNext(cells, rng, dt, ruffle_std, i, update(cells[i], dt, rng, ruffle_std))

RECURSIVE Combinations(_, _)
\* itertools.combinations(range(1, n + 1), 2) from the pair (i, j) on
Combinations(i, j) ==
  IF i >= nb_cells THEN <<>>
  ELSE IF j > nb_cells THEN Combinations(i + 1, i + 2)
  ELSE <<<<i, j>>>> \o Combinations(i, j + 1)

RECURSIVE CollidePass(_, _)
CollideNext(cells, pairs, i, j, ab) ==
  ConsCall(Call("collide", i, j, <<>>),
           CollidePass([cells EXCEPT ![i] = ab[1], ![j] = ab[2]], Tail(pairs)))

\* for a, b in itertools.combinations(self._cells, 2): a.collide(b)
CollidePass(cells, pairs) ==
  IF pairs = <<>> THEN [cells |-> cells, calls |-> <<>>]
  ELSE CollideNext(cells, pairs, pairs[1][1], pairs[1][2],
                   collide(cells[pairs[1][1]], cells[pairs[1][2]]))

\* MicroscopeSim._microscope_filter: np.random.normal draws from numpy's generator
microscope_filter(np) == RngStep(np)

\* get_frame from the drawing of the cells on
FrameDrawn(s, np, calls, rng, co) ==
  [sim |-> [s EXCEPT !.cells = co.cells, !.rng = rng],
   np |-> microscope_filter(np),
   err |-> FALSE,
   calls |-> calls \o co.calls]

\* get_frame from the collision pass on
FrameUpdated(s, np, calls, up) ==
  FrameDrawn(s, np, calls \o up.calls, up.rng, CollidePass(up.cells, Combinations(1, 2)))

\* the update pass drawing from the module-level generator, not from self.rng
FrameStimulatedGlobal(s, np, dt, st) ==
  IF st.err
  THEN [sim |-> [s EXCEPT !.cells = st.cells], np |-> np, err |-> TRUE, calls |-> st.calls]
  ELSE FrameUpdated(s, np, st.calls,
                    UpdatePass(st.cells, [state |-> np, log |-> s.rng.log], dt, s.ruffle_std, 1))

\* get_frame from the update pass on; an IndexError of the stimulation leaves get_frame
FrameStimulated(s, np, dt, st) ==
  IF st.err
  THEN [sim |-> [s EXCEPT !.cells = st.cells], np |-> np, err |-> TRUE, calls |-> st.calls]
  ELSE FrameUpdated(s, np, st.calls, UpdatePass(st.cells, s.rng, dt, s.ruffle_std, 1))

\* get_frame without the test of mask.any()
get_frameAlwaysStimulate(s, np, m, dt) == FrameStimulated(s, np, dt, StimPass(s.cells, m, 1))

\* MicroscopeSim.get_frame, dt being now - self._last_time
get_frame(s, np, m, dt) ==
  FrameStimulated(s, np, dt,
                  IF MaskAny(m) THEN StimPass(s.cells, m, 1)
                  ELSE [cells |-> s.cells, err |-> FALSE, calls |-> <<>>])

-----------------------------------------------------------------------------
(* The calls a driver makes *)

\* masks handed to the simulator: of the field's size, smaller, and larger
Masks ==
  {[h |-> height, w |-> width, pat |-> "none"],
   [h |-> height, w |-> width, pat |-> "right"],
   [h |-> height, w |-> width, pat |-> "all"],
   [h |-> height - 4, w |-> width - 4, pat |-> "all"],
   [h |-> height + 1, w |-> width, pat |-> "none"]}

\* elapsed times between frames, in thousandths of a second
Dts == {0, 200}

\* the seeds simulators are built from
Seeds == {0, 1}

NoMask == [h |-> 0, w |-> 0, pat |-> "none"]

Record(op, m, dt, a, b, err, calls) ==
  [op |-> op, mask |-> m, dt |-> dt, a |-> a, b |-> b, err |-> err,
   before |-> sim, calls |-> calls]

Init ==
  /\ \E seed \in Seeds : \E rs \in RuffleStds :
       /\ sim = NewSim(seed, rs)
       /\ twin = NewSim(seed, rs)
  /\ np_rng = 0
  /\ last = Record("init", NoMask, 0, 0, 0, FALSE, <<>>)
  /\ nops = 0

FrameDone(m, dt, f) ==
  /\ sim' = f.sim
  /\ np_rng' = f.np
  /\ last' = Record("get_frame", m, dt, 0, 0, f.err, f.calls)

\* sim.get_frame(mask), dt seconds after the frame before
GetFrame(m, dt) ==
  /\ nops < MaxCalls
  /\ FrameDone(m, dt, get_frame(sim, np_rng, m, dt))
  /\ nops' = nops + 1
  /\ UNCHANGED twin

\* sim.reset()
Reset ==
  /\ nops < MaxCalls
  /\ sim' = reset(sim)
  /\ last' = Record("reset", NoMask, 0, 0, 0, FALSE, <<>>)
  /\ nops' = nops + 1
  /\ UNCHANGED <<twin, np_rng>>

StimulateDone(i, m, res) ==
  /\ sim' = [sim EXCEPT !.cells[i] = res.cell]
  /\ last' = Record("stimulate", m, 0, i, 0, res.err, <<>>)

\* c.stimulate(mask) on one cell of sim
CellStimulate(i, m) ==
  /\ nops < MaxCalls
  /\ StimulateDone(i, m, stimulate(sim.cells[i], m))
  /\ nops' = nops + 1
  /\ UNCHANGED <<twin, np_rng>>

UpdateDone(i, dt, res) ==
  /\ sim' = [sim EXCEPT !.cells[i] = res.cell, !.rng = res.rng]
  /\ last' = Record("update", NoMask, dt, i, 0, FALSE,
                    <<Call("update", i, 0, DrawsBetween(sim.rng, res.rng))>>)

\* c.update(dt) on one cell of sim
CellUpdate(i, dt) ==
  /\ nops < MaxCalls
  /\ UpdateDone(i, dt, update(sim.cells[i], dt, sim.rng, sim.ruffle_std))
  /\ nops' = nops + 1
  /\ UNCHANGED <<twin, np_rng>>

CollideDone(i, j, ab) ==
  /\ sim' = [sim EXCEPT !.cells[i] = ab[1], !.cells[j] = ab[2]]
  /\ last' = Record("collide", NoMask, 0, i, j, FALSE, <<>>)

\* a.collide(b) on two cells of sim
CellCollide(i, j) ==
  /\ nops < MaxCalls
  /\ i # j
  /\ CollideDone(i, j, collide(sim.cells[i], sim.cells[j]))
  /\ nops' = nops + 1
  /\ UNCHANGED <<twin, np_rng>>

Next ==
  \/ \E m \in Masks : \E dt \in Dts : GetFrame(m, dt)
  \/ Reset
  \/ \E i \in Cells : \E m \in Masks : CellStimulate(i, m)
  \/ \E i \in Cells : \E dt \in Dts : CellUpdate(i, dt)
  \/ \E i \in Cells : \E j \in Cells : CellCollide(i, j)

Spec == Init /\ [][Next]_vars

TwinFrameDone(m, dt, f1, f2) ==
  /\ sim' = f1.sim
  /\ twin' = f2.sim
  /\ np_rng' = f2.np
  /\ last' = Record("get_frame", m, dt, 0, 0, f1.err, f1.calls)

TwinFrameSecond(m, dt, f1) == TwinFrameDone(m, dt, f1, get_frame(twin, f1.np, m, dt))

\* the same mask and the same dt given to sim.get_frame and then to twin.get_frame
TwinFrame(m, dt) ==
  /\ nops < MaxFrames
  /\ TwinFrameSecond(m, dt, get_frame(sim, np_rng, m, dt))
  /\ nops' = nops + 1

\* sim.reset() and twin.reset()
TwinReset ==
  /\ nops < MaxFrames
  /\ sim' = reset(sim)
  /\ twin' = reset(twin)
  /\ last' = Record("reset", NoMask, 0, 0, 0, FALSE, <<>>)
  /\ nops' = nops + 1
  /\ UNCHANGED np_rng

TwinNext ==
  \/ \E m \in Masks : \E dt \in Dts : TwinFrame(m, dt)
  \/ TwinReset

TwinSpec == Init /\ [][TwinNext]_vars

-----------------------------------------------------------------------------
(* Properties *)

\* slack for the rounding of the fixed-point arithmetic: 0.01 px
Tol == ONE \div 100

\* the band np.clip holds the radii of a cell in
InBand(c) == \A v \in Verts : c.r[v] >= RLo(c) - Tol /\ c.r[v] <= RHi(c) + Tol

\* C1: after every call, every vertex radius of every cell lies within
\* [0.4 * base_r, 2.2 * base_r]
RadiusBounds == \A i \in Cells : InBand(sim.cells[i])

\* the distance of the polygon's area from the target area, and 1% of the target
AreaErr(c) == Abs(CellArea(c) - c.area0)
AreaTol(c) == c.area0 \div 100

\* C2 as claimed: the shoelace area of every cell equals area0 after any call
\* sequence, the empty one on a fresh cell included
AreaConservedAlways == \A i \in Cells : AreaErr(sim.cells[i]) <= AreaTol(sim.cells[i])

\* C2 as amended: the shoelace area of a cell equals area0 once an update, or a
\* stimulate that protruded a vertex, has run _conserve_area on it
AreaConservedOnceRescaled ==
  \A i \in Cells :
    sim.cells[i].updates + sim.cells[i].hits > 0
      => AreaErr(sim.cells[i]) <= AreaTol(sim.cells[i])

\* a stimulate has just protruded a cell whose area was off the target before it
AreaRestoredByStimulate ==
  /\ last.op = "stimulate"
  /\ sim.cells[last.a].hits > last.before.cells[last.a].hits
  /\ AreaErr(last.before.cells[last.a]) > AreaTol(last.before.cells[last.a])
  /\ AreaErr(sim.cells[last.a]) <= AreaTol(sim.cells[last.a])

Wrapped(p, q, L) == Abs(q - p) > L \div 2

UpdateDrawKinds == <<"normalvariate", "uniform", "normalvariate", "randint", "uniform">>

\* every update of the latest call drew amplitude, heading, sample, harmonic and
\* phase in this order, with the harmonic in ks
UpdateDraws(ks) ==
  \A n \in 1 .. Len(last.calls) :
    last.calls[n].fn = "update"
      => /\ Len(last.calls[n].draws) = Len(UpdateDrawKinds)
         /\ \A d \in 1 .. Len(UpdateDrawKinds) :
              last.calls[n].draws[d][1] = UpdateDrawKinds[d]
         /\ last.calls[n].draws[4][2] \in ks

\* C10 as claimed: the harmonic of every update is 1 or 2, and the ruffle draws
\* sample, harmonic, phase follow the Brownian amplitude and heading
HarmonicOneOrTwo == UpdateDraws({1, 2})

\* C10 as amended: the harmonic of every update is 1, 2 or 3, drawn in the same
\* order
HarmonicOneToThree == UpdateDraws({1, 2, 3})

\* an update has just drawn the harmonic 3
HarmonicThreeDrawn ==
  /\ last.op = "update"
  /\ last.calls[1].draws[4] = <<"randint", 3>>

\* vertex v of cell c is inside the field and on a true pixel of mask m
OnTruePixel(c, m, v) ==
  /\ VertX(c)[v] >= 0 /\ VertX(c)[v] < W /\ VertY(c)[v] >= 0 /\ VertY(c)[v] < H
  /\ VertX(c)[v] \div ONE < m.w /\ VertY(c)[v] \div ONE < m.h
  /\ MaskAt(m, VertY(c)[v] \div ONE, VertX(c)[v] \div ONE)

\* C5: a stimulate whose mask has no true pixel under a retained vertex of the
\* cell leaves the cell's velocity, radii and center as they were and draws
\* nothing from the shared generator
StimulateNoOp ==
  (/\ last.op = "stimulate"
   /\ \A v \in Verts : ~OnTruePixel(last.before.cells[last.a], last.mask, v))
    => /\ sim.cells[last.a].vel = last.before.cells[last.a].vel
       /\ sim.cells[last.a].r = last.before.cells[last.a].r
       /\ sim.cells[last.a].center = last.before.cells[last.a].center
       /\ sim.rng = last.before.rng

\* a stimulate with a mask that has true pixels, none of them under a vertex of
\* the cell, though vertices of the cell are inside the field
StimulateMissed ==
  /\ last.op = "stimulate"
  /\ ~last.err
  /\ MaskAny(last.mask)
  /\ Inside(VertX(last.before.cells[last.a]), VertY(last.before.cells[last.a])) # {}
  /\ \A v \in Verts : ~OnTruePixel(last.before.cells[last.a], last.mask, v)

\* the minimum-image distance of two centers, and the overlap of two cells
MinImageDist(a, b) ==
  Norm(<<MinImage(b.center[1] - a.center[1], W), MinImage(b.center[2] - a.center[2], H)>>)
Overlap(a, b) == MaxSeq(a.r, vertices) + MaxSeq(b.r, vertices) - MinImageDist(a, b)

\* the latest call was a.collide(b) on two cells at a nonzero distance that overlap
Collided ==
  /\ last.op = "collide"
  /\ MinImageDist(last.before.cells[last.a], last.before.cells[last.b]) # 0
  /\ Overlap(last.before.cells[last.a], last.before.cells[last.b]) > 0

\* both velocities are zero and the overlap is smaller than before the call
Separated ==
  /\ sim.cells[last.a].vel = <<0, 0>>
  /\ sim.cells[last.b].vel = <<0, 0>>
  /\ Overlap(sim.cells[last.a], sim.cells[last.b])
       < Overlap(last.before.cells[last.a], last.before.cells[last.b])

\* the separation the collision aims at fits in half the smaller side of the field
FitsField(a, b) ==
  MaxSeq(a.r, vertices) + MaxSeq(b.r, vertices) + ONE \div 2 <= Min2(W, H) \div 2

MaskRejected ==
  (/\ last.op = "get_frame"
   /\ (last.mask.h # height \/ last.mask.w # width))
    => /\ last.err
       /\ sim.cells = last.before.cells

\* the number of stimulate calls of a frame: one per cell if the mask has a true
\* pixel, none otherwise
StimCount(m) == IF \E iy \in 0 .. m.h - 1 : \E ix \in 0 .. m.w - 1 : MaskAt(m, iy, ix)
                THEN nb_cells ELSE 0

\* calls cs: stimulate on cells 1..ns, then update on cells 1..nb_cells, then
\* collide on the pairs a < b in increasing order, each once; draws in updates only
Ordered(cs, ns) ==
  /\ Len(cs) = ns + nb_cells + (nb_cells * (nb_cells - 1)) \div 2
  /\ \A n \in 1 .. ns :
       cs[n].fn = "stimulate" /\ cs[n].a = n /\ cs[n].draws = <<>>
  /\ \A n \in 1 .. nb_cells :
       cs[ns + n].fn = "update" /\ cs[ns + n].a = n
  /\ \A n \in ns + nb_cells + 1 .. Len(cs) :
       /\ cs[n].fn = "collide" /\ cs[n].draws = <<>>
       /\ cs[n].a \in Cells /\ cs[n].b \in Cells /\ cs[n].a < cs[n].b
       /\ n > ns + nb_cells + 1
            => \/ cs[n - 1].a < cs[n].a
               \/ cs[n - 1].a = cs[n].a /\ cs[n - 1].b < cs[n].b

\* the draws of the update calls among cs[1..n], one after the other
RECURSIVE UpdateDrawsUpTo(_, _)
UpdateDrawsUpTo(cs, n) ==
  IF n = 0 THEN <<>>
  ELSE UpdateDrawsUpTo(cs, n - 1) \o (IF cs[n].fn = "update" THEN cs[n].draws ELSE <<>>)

\* C8: a get_frame that returns has called stimulate on every cell, if and only
\* if the mask has a true pixel, then update once on every cell in population
\* order, then collide once on every pair i < j in upper-triangle order, and
\* the draws from the shared generator are those of the update calls
FrameOrdered ==
  (last.op = "get_frame" /\ ~last.err)
    => /\ Ordered(last.calls, StimCount(last.mask))
       /\ sim.rng.log = last.before.rng.log \o UpdateDrawsUpTo(last.calls, Len(last.calls))

\* a frame with a mask that stimulated a cell has returned
FrameStimulatedACell ==
  /\ last.op = "get_frame"
  /\ ~last.err
  /\ \E i \in Cells : sim.cells[i].hits > last.before.cells[i].hits

\* cell i, never stimulated and without ruffle, has just been updated
JustRelaxed(i) ==
  /\ last.op \in {"update", "get_frame"}
  /\ sim.ruffle_std = 0
  /\ sim.cells[i].hits = 0
  /\ sim.cells[i].updates = last.before.cells[i].updates + 1

\* no radius of cell c is farther from base_r than it was in cell b
NotFarther(b, c) ==
  \A v \in Verts : Abs(c.r[v] - c.base_r) <= Abs(b.r[v] - b.base_r) + Tol

\* C9 as claimed: every update of a never stimulated cell without ruffle, from
\* the fresh cell on, leaves no radius farther from base_r than before, and the
\* area at the target
RelaxationMonotone ==
  \A i \in Cells :
    JustRelaxed(i)
      => /\ NotFarther(last.before.cells[i], sim.cells[i])
         /\ AreaErr(sim.cells[i]) <= AreaTol(sim.cells[i])

\* C9 as amended: the same for every update but the first of a cell; the first
\* leaves the area at the target too
RelaxationMonotoneAfterFirst ==
  \A i \in Cells :
    JustRelaxed(i)
      => /\ last.before.cells[i].updates > 0
           => NotFarther(last.before.cells[i], sim.cells[i])
         /\ AreaErr(sim.cells[i]) <= AreaTol(sim.cells[i])

\* a never stimulated cell without ruffle has had its second update
RelaxedTwice == \E i \in Cells : JustRelaxed(i) /\ sim.cells[i].updates = 2

\* C4: after every frame given with the same mask and the same dt to two
\* simulators built from the same seed and configuration, the cells of the two
\* have the same centers, velocities and radii
SameCells ==
  \A i \in Cells :
    /\ sim.cells[i].center = twin.cells[i].center
    /\ sim.cells[i].vel = twin.cells[i].vel
    /\ sim.cells[i].r = twin.cells[i].r

\* two frames have been given to both simulators, the latest stimulated a cell
\* and moved the cells
TwoFramesStimulated ==
  /\ nops >= 2
  /\ last.op = "get_frame"
  /\ ~last.err
  /\ \E i \in Cells : sim.cells[i].hits > last.before.cells[i].hits
  /\ \E i \in Cells : sim.cells[i].center # last.before.cells[i].center

====
